---- MODULE Spec2Model ----
(***************************************************************************)
(* Grid search engine of the path visualizer: the node/grid data model,    *)
(* the search algorithms bfs, dijkstra and astar, and the App component    *)
(* that edits the grid, runs an algorithm and plays its result back.       *)
(*                                                                         *)
(* Encoding of the JavaScript heap.  A Node is a record.  The grid is a    *)
(* function row -> col -> Node with 0-based indices, as in grid[row][col]. *)
(* The App keeps startNode and endNode as references to Node objects that  *)
(* were captured at click time; every later setGrid builds fresh copies,   *)
(* so the object held in startNode is never an element of the grid that is *)
(* passed to an algorithm.  The model therefore keeps startNode as a node  *)
(* record of its own, next to the grid.  Inside an algorithm a reference   *)
(* is <<"s", row, col>> (the object held in startNode) or <<"g", row, col>>*)
(* (the object grid[row][col]).                                            *)
(*                                                                         *)
(* previousNode is a reference to a node that is finalized when the link   *)
(* is made and is not written again in that run.  It is kept by value, as  *)
(* the sequence of nodes reached by following previousNode repeatedly,     *)
(* root first; <<>> is null.  Each element records row, col, distance and  *)
(* gScore, the fields path reconstruction and playback read.               *)
(***************************************************************************)
EXTENDS Integers, Sequences, FiniteSets, TLC

\* Number.POSITIVE_INFINITY, larger than every hop count of a modelled grid.
Infinity == 1000
\* A field that was never assigned (undefined).
Undefined == -1

\* Grid dimensions of the App (GRID_SIZE, scaled down).
Rows == 1
Cols == 3

Null == [null |-> TRUE]

\* One cell of createInitialGrid.
NewNode(r, c) ==
  [row |-> r, col |-> c, type |-> "empty", distance |-> Infinity,
   isVisited |-> FALSE, previousNode |-> <<>>,
   gScore |-> Undefined, fScore |-> Undefined, hScore |-> Undefined]

createInitialGrid(rows, cols) ==
  [r \in 0..(rows - 1) |-> [c \in 0..(cols - 1) |-> NewNode(r, c)]]

\* grid.length and grid[0].length
NumRows(grid) == Cardinality(DOMAIN grid)
NumCols(grid) == Cardinality(DOMAIN grid[0])

Cells(grid) == (DOMAIN grid) \X (DOMAIN grid[0])

Abs(x) == IF x < 0 THEN -x ELSE x

manhattanDistance(nodeA, nodeB) ==
  Abs(nodeA.row - nodeB.row) + Abs(nodeA.col - nodeB.col)

\* What a path or a predecessor chain keeps of a node.
Info(n) ==
  [row |-> n.row, col |-> n.col, distance |-> n.distance, gScore |-> n.gScore]

\* The in-bounds neighbours of (row, col) pushed in the order up, left, down,
\* right.
InBoundsNeighborsLeftFirst(row, col, grid) ==
  (IF row > 0 THEN << <<row - 1, col>> >> ELSE <<>>) \o
  (IF col > 0 THEN << <<row, col - 1>> >> ELSE <<>>) \o
  (IF row < NumRows(grid) - 1 THEN << <<row + 1, col>> >> ELSE <<>>) \o
  (IF col < NumCols(grid) - 1 THEN << <<row, col + 1>> >> ELSE <<>>)

\* The four in-bounds neighbours of (row, col) in the order up, down, left, right.
InBoundsNeighbors(row, col, grid) ==
  (IF row > 0 THEN << <<row - 1, col>> >> ELSE <<>>) \o
  (IF row < NumRows(grid) - 1 THEN << <<row + 1, col>> >> ELSE <<>>) \o
  (IF col > 0 THEN << <<row, col - 1>> >> ELSE <<>>) \o
  (IF col < NumCols(grid) - 1 THEN << <<row, col + 1>> >> ELSE <<>>)

\* neighbors.filter(neighbor => !neighbor.isVisited)
RECURSIVE FilterUnvisited(_, _)
FilterUnvisited(ps, grid) ==
  IF ps = <<>> THEN <<>>
  ELSE LET p == Head(ps)
       IN (IF grid[p[1]][p[2]].isVisited THEN <<>> ELSE <<p>>)
          \o FilterUnvisited(Tail(ps), grid)

\* bfs.ts getUnvisitedNeighbors: in-bounds neighbours, no filter.
getUnvisitedNeighbors(node, grid) == InBoundsNeighbors(node.row, node.col, grid)

\* dijkstra and astar getValidNeighbors: in-bounds neighbours not yet visited.
getValidNeighbors(node, grid) ==
  FilterUnvisited(InBoundsNeighbors(node.row, node.col, grid), grid)

\* The object a reference denotes in the run state s.
Deref(s, ref) == IF ref[1] = "s" THEN s.start ELSE s.grid[ref[2]][ref[3]]

StartRef(s) == <<"s", s.start.row, s.start.col>>

\* Array.prototype.sort with comparator (a, b) => key(a) - key(b): stable.
\* InsertSorted puts x after every element whose key is <= the key of x.
RECURSIVE InsertSorted(_, _, _, _)
InsertSorted(sorted, x, s, field) ==
  IF sorted = <<>> THEN <<x>>
  ELSE IF Deref(s, Head(sorted))[field] <= Deref(s, x)[field]
       THEN <<Head(sorted)>> \o InsertSorted(Tail(sorted), x, s, field)
       ELSE <<x>> \o sorted

RECURSIVE SortQueue(_, _, _)
SortQueue(q, s, field) ==
  IF q = <<>> THEN <<>>
  ELSE InsertSorted(SortQueue(SubSeq(q, 1, Len(q) - 1), s, field),
                    q[Len(q)], s, field)

Includes(q, x) == \E i \in 1..Len(q) : q[i] = x

PosOf(n) == [row |-> n.row, col |-> n.col]

(***************************************************************************)
(* dijkstra                                                                *)
(***************************************************************************)

\* "Reset and initialize all nodes": the nodes of the grid, and only those.
DijkstraResetGrid(grid) ==
  [r \in DOMAIN grid |-> [c \in DOMAIN grid[r] |->
     [grid[r][c] EXCEPT !.distance = Infinity, !.previousNode = <<>>,
                        !.isVisited = FALSE]]]

\* Path reconstruction of dijkstra: the chain back from endNode, kept only
\* if its first node has distance 0.
DijkstraReconstructPath(node) ==
  LET path == node.previousNode \o <<Info(node)>>
  IN IF Len(path) > 0 /\ path[1].distance = 0 THEN path ELSE <<>>

\* The loop body of updateUnvisitedNeighbors for one neighbour.
DijkstraRelax(s, cur, p) ==
  LET node == Deref(s, cur)
      neighbor == s.grid[p[1]][p[2]]
      tentativeDistance == node.distance + 1
      ref == <<"g", p[1], p[2]>>
  IN IF neighbor.type = "wall" THEN s
     ELSE IF tentativeDistance < neighbor.distance
     THEN [s EXCEPT
             !.grid[p[1]][p[2]].distance = tentativeDistance,
             !.grid[p[1]][p[2]].previousNode = node.previousNode \o <<Info(node)>>,
             !.queue = IF Includes(s.queue, ref) THEN s.queue
                       ELSE Append(s.queue, ref)]
     ELSE s

RECURSIVE DijkstraRelaxAll(_, _, _)
DijkstraRelaxAll(s, cur, ps) ==
  IF ps = <<>> THEN s
  ELSE DijkstraRelaxAll(DijkstraRelax(s, cur, Head(ps)), cur, Tail(ps))

updateUnvisitedNeighbors(s, cur) ==
  DijkstraRelaxAll(s, cur, getValidNeighbors(Deref(s, cur), s.grid))

\* Write field := value on the object ref denotes.
SetField(s, ref, field, value) ==
  IF ref[1] = "s" THEN [s EXCEPT !.start[field] = value]
  ELSE [s EXCEPT !.grid[ref[2]][ref[3]][field] = value]

\* One iteration of the while loop of dijkstra.
DijkstraStep(s, endNode) ==
  LET sorted == SortQueue(s.queue, s, "distance")
      cur == Head(sorted)
      s0 == [s EXCEPT !.queue = Tail(sorted)]
      currentNode == Deref(s0, cur)
  IN IF currentNode.isVisited \/ currentNode.type = "wall" THEN s0
     ELSE LET s1 == [SetField(s0, cur, "isVisited", TRUE) EXCEPT
                       !.visitedNodes = Append(@, PosOf(currentNode))]
          IN IF currentNode.row = endNode.row /\ currentNode.col = endNode.col
             THEN [s1 EXCEPT !.path = DijkstraReconstructPath(Deref(s1, cur)),
                             !.done = TRUE]
             ELSE updateUnvisitedNeighbors(s1, cur)

RECURSIVE DijkstraLoop(_, _)
\* dijkstra returning the visited nodes as the path when the queue runs empty.
DijkstraLoopReturnsVisited(s, endNode) ==
  IF s.done THEN s
  ELSE IF s.queue = <<>> THEN [s EXCEPT !.done = TRUE, !.path = s.visitedNodes]
  ELSE DijkstraLoop(DijkstraStep(s, endNode), endNode)

DijkstraLoop(s, endNode) ==
  IF s.done THEN s
  ELSE IF s.queue = <<>> THEN [s EXCEPT !.done = TRUE]
  ELSE DijkstraLoop(DijkstraStep(s, endNode), endNode)

\* State of a run before the while loop.
DijkstraStart(grid, startNode) ==
  LET start == [startNode EXCEPT !.distance = 0]
  IN [grid |-> DijkstraResetGrid(grid), start |-> start,
      queue |-> << <<"s", start.row, start.col>> >>, closedSet |-> {},
      visitedNodes |-> <<>>, path |-> <<>>, done |-> FALSE]

dijkstra(grid, startNode, endNode) ==
  DijkstraLoop(DijkstraStart(grid, startNode), endNode)

(***************************************************************************)
(* astar                                                                   *)
(***************************************************************************)

AstarResetGrid(grid, endNode) ==
  [r \in DOMAIN grid |-> [c \in DOMAIN grid[r] |->
     [grid[r][c] EXCEPT !.gScore = Infinity, !.fScore = Infinity,
                        !.hScore = manhattanDistance(grid[r][c], endNode),
                        !.previousNode = <<>>, !.isVisited = FALSE]]]

AstarReconstructPath(node) ==
  LET path == node.previousNode \o <<Info(node)>>
  IN IF Len(path) > 0 /\ path[1].gScore = 0 THEN path ELSE <<>>

\* The body of the neighbour loop of astar for one neighbour.
AstarRelax(s, cur, p) ==
  LET currentNode == Deref(s, cur)
      neighbor == s.grid[p[1]][p[2]]
      ref == <<"g", p[1], p[2]>>
      tentativeGScore == currentNode.gScore + 1
  IN IF ref \in s.closedSet \/ neighbor.type = "wall" THEN s
     ELSE IF tentativeGScore < neighbor.gScore
     THEN [s EXCEPT
             !.grid[p[1]][p[2]].previousNode =
                 currentNode.previousNode \o <<Info(currentNode)>>,
             !.grid[p[1]][p[2]].gScore = tentativeGScore,
             !.grid[p[1]][p[2]].fScore = tentativeGScore + neighbor.hScore,
             !.queue = IF Includes(s.queue, ref) THEN s.queue
                       ELSE Append(s.queue, ref)]
     ELSE s

RECURSIVE AstarRelaxAll(_, _, _)
AstarRelaxAll(s, cur, ps) ==
  IF ps = <<>> THEN s
  ELSE AstarRelaxAll(AstarRelax(s, cur, Head(ps)), cur, Tail(ps))

\* One iteration of the while loop of astar (queue is openSet).
AstarStep(s, endNode) ==
  LET sorted == SortQueue(s.queue, s, "fScore")
      cur == Head(sorted)
      s0 == [s EXCEPT !.queue = Tail(sorted)]
      currentNode == Deref(s0, cur)
  IN IF cur \in s.closedSet \/ currentNode.type = "wall" THEN s0
     ELSE LET s1 == [SetField(s0, cur, "isVisited", TRUE) EXCEPT
                       !.visitedNodes = Append(@, PosOf(currentNode)),
                       !.closedSet = @ \cup {cur}]
          IN IF currentNode.row = endNode.row /\ currentNode.col = endNode.col
             THEN [s1 EXCEPT !.path = AstarReconstructPath(Deref(s1, cur)),
                             !.done = TRUE]
             ELSE AstarRelaxAll(s1, cur, getValidNeighbors(Deref(s1, cur), s1.grid))

RECURSIVE AstarLoop(_, _)
AstarLoop(s, endNode) ==
  IF s.done THEN s
  ELSE IF s.queue = <<>> THEN [s EXCEPT !.done = TRUE]
  ELSE AstarLoop(AstarStep(s, endNode), endNode)

AstarStart(grid, startNode, endNode) ==
  LET start == [startNode EXCEPT !.gScore = 0, !.fScore = startNode.hScore]
  IN [grid |-> AstarResetGrid(grid, endNode), start |-> start,
      queue |-> << <<"s", start.row, start.col>> >>, closedSet |-> {},
      visitedNodes |-> <<>>, path |-> <<>>, done |-> FALSE]

astar(grid, startNode, endNode) ==
  AstarLoop(AstarStart(grid, startNode, endNode), endNode)

(***************************************************************************)
(* bfs                                                                     *)
(***************************************************************************)

BfsResetGrid(grid) ==
  [r \in DOMAIN grid |-> [c \in DOMAIN grid[r] |->
     [grid[r][c] EXCEPT !.previousNode = <<>>, !.isVisited = FALSE]]]

\* reconstructPath of bfs.ts: the chain back from endNode, not validated.
BfsReconstructPath(node) == node.previousNode \o <<Info(node)>>

\* The body of the neighbour loop of bfs for one neighbour.
BfsVisit(s, cur, p) ==
  LET currentNode == Deref(s, cur)
      neighbor == s.grid[p[1]][p[2]]
  IN IF neighbor.type # "wall" /\ ~neighbor.isVisited
     THEN [s EXCEPT
             !.grid[p[1]][p[2]].isVisited = TRUE,
             !.grid[p[1]][p[2]].previousNode =
                 currentNode.previousNode \o <<Info(currentNode)>>,
             !.queue = Append(s.queue, <<"g", p[1], p[2]>>)]
     ELSE s

RECURSIVE BfsVisitAll(_, _, _)
BfsVisitAll(s, cur, ps) ==
  IF ps = <<>> THEN s
  ELSE BfsVisitAll(BfsVisit(s, cur, Head(ps)), cur, Tail(ps))

\* One iteration of the while loop of bfs.
BfsStep(s, endNode) ==
  LET cur == Head(s.queue)
      currentNode == Deref(s, cur)
      s1 == [s EXCEPT !.queue = Tail(s.queue),
                      !.visitedNodes = Append(@, PosOf(currentNode))]
  IN IF currentNode.row = endNode.row /\ currentNode.col = endNode.col
     THEN [s1 EXCEPT !.path = BfsReconstructPath(currentNode), !.done = TRUE]
     ELSE BfsVisitAll(s1, cur, getUnvisitedNeighbors(currentNode, s1.grid))

RECURSIVE BfsLoop(_, _)
BfsLoop(s, endNode) ==
  IF s.done THEN s
  ELSE IF s.queue = <<>> THEN [s EXCEPT !.done = TRUE]
  ELSE BfsLoop(BfsStep(s, endNode), endNode)

BfsStart(grid, startNode) ==
  LET start == [startNode EXCEPT !.isVisited = TRUE]
  IN [grid |-> BfsResetGrid(grid), start |-> start,
      queue |-> << <<"s", start.row, start.col>> >>, closedSet |-> {},
      visitedNodes |-> <<>>, path |-> <<>>, done |-> FALSE]

bfs(grid, startNode, endNode) ==
  BfsLoop(BfsStart(grid, startNode), endNode)

(***************************************************************************)
(* The App component: state, event handlers, playback timers.              *)
(*                                                                         *)
(* A call of visualizeAlgorithm that is suspended at an await is a record  *)
(* of the sequence playback: the results it plays (tracks), the timer it   *)
(* waits for (phase, i) and what it captured.  A call that finished is not *)
(* in the sequence.                                                        *)
(***************************************************************************)

\* Bounds of the exploration.
MaxClicks == 4
MaxRequests == 2

Algorithms == {"dijkstra", "astar", "bfs"}
Tools == {"wall", "start", "end"}
ComparisonModes == {"single", "comparison"}

VARIABLES
  grid,          \* useState grid
  startNode,     \* useState startNode: Null or the captured Node object
  endNode,       \* useState endNode
  currentTool,   \* useState currentTool
  isMousePressed,  \* useState isMousePressed
  algorithm,     \* useState algorithm
  isRunning,     \* useState isRunning
  metrics,       \* dijkstraMetrics, astarMetrics, bfsMetrics
  error,         \* useState error: Null or the message
  comparisonMode,      \* useState comparisonMode
  selectedAlgorithms,  \* useState selectedAlgorithms: the kinds set to true
  keyClosure,    \* what the registered keydown handler captured
  playback,      \* the suspended visualizeAlgorithm calls
  history,       \* per algorithm, its latest run since the last edit
  events,        \* the playback events fired since the latest run began
  requests,      \* number of run requests (button and space key)
  clicks         \* number of calls of handleNodeClick

vars == <<grid, startNode, endNode, currentTool, isMousePressed, algorithm, isRunning,
          metrics, error, comparisonMode, selectedAlgorithms, keyClosure,
          playback, history, events, requests, clicks>>

\* The position of a call that has no await left.
Idle == [phase |-> "idle", i |-> 0]

NoMetrics == [a \in Algorithms |-> Null]
NoHistory == [a \in Algorithms |-> Null]

\* The state a render closes over, as far as visualizeAlgorithm reads it
\* beyond isRunning, startNode and endNode.
Closure(g, a, mode, selected) ==
  [grid |-> g, algorithm |-> a, comparisonMode |-> mode,
   selectedAlgorithms |-> selected]

\* The keydown effect has the dependencies isRunning, startNode, endNode and
\* resetGrid: the handler is registered again, from the current render, only
\* when one of them changed.
KeyClosureAfter(changed, g) ==
  IF changed THEN Closure(g, algorithm, comparisonMode, selectedAlgorithms)
  ELSE keyClosure

Init ==
  /\ grid = createInitialGrid(Rows, Cols)
  /\ startNode = Null
  /\ endNode = Null
  /\ currentTool = "wall"
  /\ isMousePressed = FALSE
  /\ algorithm = "dijkstra"
  /\ isRunning = FALSE
  /\ metrics = NoMetrics
  /\ error = Null
  /\ comparisonMode = "single"
  /\ selectedAlgorithms = {}
  /\ keyClosure = Closure(createInitialGrid(Rows, Cols), "dijkstra", "single", {})
  /\ playback = <<>>
  /\ history = NoHistory
  /\ events = <<>>
  /\ requests = 0
  /\ clicks = 0

\* setCurrentTool, from the tool buttons and the w, s, e keys (off while
\* running).
SetCurrentTool(tool) ==
  /\ ~isRunning
  /\ currentTool' = tool
  /\ UNCHANGED <<grid, startNode, endNode, isMousePressed, algorithm, isRunning, metrics,
                 error, comparisonMode, selectedAlgorithms, keyClosure,
                 playback, history, events, requests, clicks>>

\* setAlgorithm, from the algorithm selector (disabled while running).
SetAlgorithm(a) ==
  /\ ~isRunning
  /\ algorithm' = a
  /\ UNCHANGED <<grid, startNode, endNode, currentTool, isMousePressed, isRunning, metrics,
                 error, comparisonMode, selectedAlgorithms, keyClosure,
                 playback, history, events, requests, clicks>>

\* setComparisonMode, from the mode selector (disabled while running).
SetComparisonMode(mode) ==
  /\ ~isRunning
  /\ comparisonMode' = mode
  /\ UNCHANGED <<grid, startNode, endNode, currentTool, isMousePressed, algorithm, isRunning,
                 metrics, error, selectedAlgorithms, keyClosure, playback,
                 history, events, requests, clicks>>

\* setSelectedAlgorithms, from the check box of kind a (disabled while
\* running).
SetSelectedAlgorithms(a, checked) ==
  /\ ~isRunning
  /\ selectedAlgorithms' = IF checked THEN selectedAlgorithms \cup {a}
                           ELSE selectedAlgorithms \ {a}
  /\ UNCHANGED <<grid, startNode, endNode, currentTool, isMousePressed, algorithm, isRunning,
                 metrics, error, comparisonMode, keyClosure, playback,
                 history, events, requests, clicks>>

\* resetGrid, from the reset button and the r key (both off while running).
resetGrid ==
  /\ ~isRunning
  /\ grid' = createInitialGrid(Rows, Cols)
  /\ startNode' = Null
  /\ endNode' = Null
  /\ error' = Null
  /\ metrics' = NoMetrics
  /\ history' = NoHistory
  /\ events' = <<>>
  /\ keyClosure' = KeyClosureAfter(startNode # Null \/ endNode # Null,
                                   createInitialGrid(Rows, Cols))
  /\ UNCHANGED <<currentTool, isMousePressed, algorithm, isRunning, comparisonMode,
                 selectedAlgorithms, playback, requests, clicks>>

\* handleNodeClick without the "Remove previous start node" update.
ClickedGridKeepsPrevious(g, sNode, eNode, tool, row, col) ==
  IF tool = "start" THEN [g EXCEPT ![row][col].type = "start"]
  ELSE IF tool = "end" THEN [g EXCEPT ![row][col].type = "end"]
  ELSE IF tool = "wall" /\ g[row][col].type # "start" /\ g[row][col].type # "end"
  THEN [g EXCEPT ![row][col].type = IF @ = "wall" THEN "empty" ELSE "wall"]
  ELSE g

\* The grid handleNodeClick(row, col) leaves behind.
ClickedGrid(g, sNode, eNode, tool, row, col) ==
  LET node == g[row][col]
  IN IF tool = "start"
     THEN LET g1 == IF sNode # Null
                    THEN [g EXCEPT ![sNode.row][sNode.col].type = "empty"]
                    ELSE g
          IN [g1 EXCEPT ![row][col].type = "start"]
     ELSE IF tool = "end"
     THEN LET g1 == IF eNode # Null
                    THEN [g EXCEPT ![eNode.row][eNode.col].type = "empty"]
                    ELSE g
          IN [g1 EXCEPT ![row][col].type = "end"]
     ELSE IF tool = "wall" /\ node.type # "start" /\ node.type # "end"
     THEN [g EXCEPT ![row][col].type = IF @ = "wall" THEN "empty" ELSE "wall"]
     ELSE g

\* The object setStartNode receives in handleNodeClick: grid[row][col] of the
\* grid the click was made on.
ClickedStart(g, sNode, tool, row, col) ==
  IF tool = "start" THEN g[row][col] ELSE sNode

\* The object setEndNode receives in handleNodeClick.
ClickedEnd(g, eNode, tool, row, col) ==
  IF tool = "end" THEN g[row][col] ELSE eNode

\* What handleNodeClick(row, col) does past its isRunning test.
NodeClick(row, col) ==
  /\ clicks < MaxClicks
  /\ grid' = ClickedGrid(grid, startNode, endNode, currentTool, row, col)
  /\ startNode' = ClickedStart(grid, startNode, currentTool, row, col)
  /\ endNode' = ClickedEnd(grid, endNode, currentTool, row, col)
  /\ clicks' = clicks + 1
  /\ history' = NoHistory
  /\ events' = <<>>
  /\ keyClosure' =
       KeyClosureAfter(currentTool \in {"start", "end"},
                       ClickedGrid(grid, startNode, endNode, currentTool, row, col))
  /\ UNCHANGED <<currentTool, algorithm, isRunning, metrics, error,
                 comparisonMode, selectedAlgorithms, playback, requests>>

\* handleNodeClick without the isRunning test.
handleNodeClickWhileRunning(row, col) ==
  /\ NodeClick(row, col)
  /\ UNCHANGED isMousePressed

handleNodeClick(row, col) ==
  /\ ~isRunning
  /\ NodeClick(row, col)
  /\ UNCHANGED isMousePressed

\* handleMouseDown: with the wall tool, a press starts a drag and toggles the
\* cell under the pointer.
handleMouseDown(row, col) ==
  /\ ~(isRunning \/ currentTool # "wall")
  /\ isMousePressed' = TRUE
  /\ NodeClick(row, col)

\* handleMouseEnter: during a drag with the wall tool, the cell the pointer
\* enters is toggled.
handleMouseEnter(row, col) ==
  /\ ~(~isMousePressed \/ isRunning \/ currentTool # "wall")
  /\ NodeClick(row, col)
  /\ UNCHANGED isMousePressed

\* handleMouseUp: the drag ends.
handleMouseUp ==
  /\ isMousePressed' = FALSE
  /\ UNCHANGED <<grid, startNode, endNode, currentTool, algorithm, isRunning,
                 metrics, error, comparisonMode, selectedAlgorithms,
                 keyClosure, playback, history, events, requests, clicks>>

\* "Reset the grid visualization" of visualizeAlgorithm: fresh copies with
\* isVisited, distance and previousNode cleared and visited/path tags removed.
ResetVisualization(g) ==
  [r \in DOMAIN g |-> [c \in DOMAIN g[r] |->
     [g[r][c] EXCEPT !.isVisited = FALSE, !.distance = Infinity,
                     !.previousNode = <<>>,
                     !.type = IF @ \in {"visited", "path"} THEN "empty" ELSE @]]]

\* What the default case of the switch leaves in place of a result.
InvalidAlgorithm == [invalid |-> TRUE]

\* The switch on the algorithm kind in visualizeAlgorithm.
RunAlgorithm(a, g, sNode, eNode) ==
  CASE a = "dijkstra" -> dijkstra(g, sNode, eNode)
    [] a = "astar" -> astar(g, sNode, eNode)
    [] a = "bfs" -> bfs(g, sNode, eNode)
    [] OTHER -> InvalidAlgorithm

\* nodesVisited, pathLength and pathFound with pathLength one short.
MetricsOneShort(result) ==
  [nodesVisited |-> Len(result.visitedNodes),
   pathLength |-> IF Len(result.path) > 0 THEN Len(result.path) - 1 ELSE 0,
   pathFound |-> Len(result.path) > 0]

Metrics(result) ==
  [nodesVisited |-> Len(result.visitedNodes),
   pathLength |-> Len(result.path),
   pathFound |-> Len(result.path) > 0]

WallCells(g) == {p \in Cells(g) : g[p[1]][p[2]].type = "wall"}

\* The wall/start/end layout a run works on.
Layout(g, sNode, eNode) ==
  [walls |-> WallCells(g), start |-> <<sNode.row, sNode.col>>,
   end |-> <<eNode.row, eNode.col>>]

\* One result a call plays, with the tags its events write.
Track(a, result, visitedTag, pathTag) ==
  [algo |-> a, visitedNodes |-> result.visitedNodes, path |-> result.path,
   visitedTag |-> visitedTag, pathTag |-> pathTag]

RECURSIVE MaxVisited(_)
\* The number of timers of the "Visualize nodes" loop.
MaxVisited(tracks) ==
  IF tracks = <<>> THEN 0
  ELSE LET m == MaxVisited(Tail(tracks))
           n == Len(Head(tracks).visitedNodes)
       IN IF n > m THEN n ELSE m

RECURSIVE MaxPath(_)
\* The number of timers of the "Visualize path" loop.
MaxPath(tracks) ==
  IF tracks = <<>> THEN 0
  ELSE LET m == MaxPath(Tail(tracks))
           n == Len(Head(tracks).path)
       IN IF n > m THEN n ELSE m

\* Where a call goes once the loops over its tracks are done: the delay
\* between two algorithms of comparison mode, or the finally block.
AfterTracks(call) ==
  IF call.algos # <<>> THEN [call EXCEPT !.phase = "pause", !.i = 0]
  ELSE [call EXCEPT !.phase = "idle", !.i = 0]

\* The first await of a call after its tracks were computed.
PlaybackOf(call) ==
  IF MaxVisited(call.tracks) > 0 THEN [call EXCEPT !.phase = "visited", !.i = 1]
  ELSE IF MaxPath(call.tracks) > 0 THEN [call EXCEPT !.phase = "path", !.i = 1]
  ELSE AfterTracks(call)

\* The early return of visualizeAlgorithm without the isRunning test.
RejectsIgnoringRunning(sNode, eNode, running) == sNode = Null \/ eNode = Null

\* The early return of visualizeAlgorithm.
Rejects(sNode, eNode, running) == sNode = Null \/ eNode = Null \/ running

RECURSIVE SelectedAlgos(_, _)
\* Object.entries(selectedAlgorithms) filtered to the selected kinds: in the
\* order of the keys dijkstra, astar, bfs.
SelectedAlgos(order, selected) ==
  IF order = <<>> THEN <<>>
  ELSE (IF Head(order) \in selected THEN <<Head(order)>> ELSE <<>>)
       \o SelectedAlgos(Tail(order), selected)

\* The algorithms a call of visualizeAlgorithm runs, in order.
AlgosOf(c) ==
  IF c.comparisonMode = "single" THEN <<c.algorithm>>
  ELSE SelectedAlgos(<<"dijkstra", "astar", "bfs">>, c.selectedAlgorithms)

\* One pass of visualizeAlgorithm from the grid reset to the next await, for
\* algorithm Head(algos) of run n: reset of the captured grid g, the run, its
\* metrics (on top of base) and the first timer.  err is the error state the
\* pass starts from, others are the other suspended calls.  The default case of the switch throws: the catch block
\* sets error and the finally block ends the call.
BeginTrack(n, algos, g, base, err, others) ==
  LET a == Head(algos)
      newGrid == ResetVisualization(g)
      result == RunAlgorithm(a, newGrid, startNode, endNode)
  IN IF result = InvalidAlgorithm
     THEN /\ grid' = newGrid
          /\ error' = [message |-> "Invalid algorithm"]
          /\ metrics' = base
          /\ playback' = others
          /\ isRunning' = FALSE
          /\ keyClosure' = KeyClosureAfter(isRunning, newGrid)
          /\ UNCHANGED <<startNode, history>>
     ELSE LET call == PlaybackOf([n |-> n, tracks |-> <<Track(a, result, "visited", "path")>>,
                                  algos |-> Tail(algos), grid |-> g, late |-> FALSE,
                                  phase |-> "idle", i |-> 0])
              done == call.phase = "idle"
          IN /\ grid' = result.grid
             /\ startNode' = result.start
             /\ metrics' = [base EXCEPT ![a] = Metrics(result)]
             /\ playback' = IF done THEN others ELSE Append(others, call)
             /\ isRunning' = ~done
             /\ keyClosure' = KeyClosureAfter(isRunning # ~done, result.grid)
             /\ history' = [history EXCEPT ![a] =
                   [n |-> n,
                    layout |-> Layout(newGrid, startNode, endNode),
                    visitedNodes |-> result.visitedNodes,
                    path |-> result.path]]
             /\ error' = err

\* visualizeAlgorithm as the render c closed over it, up to its first await:
\* the early return, or the resets and the first pass.
VisualizeFrom(c) ==
  IF Rejects(startNode, endNode, isRunning)
  THEN UNCHANGED <<grid, startNode, endNode, currentTool, isMousePressed, algorithm,
                   isRunning, metrics, error, comparisonMode,
                   selectedAlgorithms, keyClosure, playback, history, events,
                   clicks>>
  ELSE /\ events' = <<>>
       /\ IF AlgosOf(c) = <<>>
          THEN /\ metrics' = NoMetrics
               /\ error' = Null
               /\ isRunning' = FALSE
               /\ keyClosure' = KeyClosureAfter(isRunning, grid)
               /\ UNCHANGED <<grid, startNode, playback, history>>
          ELSE BeginTrack(requests + 1, AlgosOf(c), c.grid, NoMetrics, Null,
                          playback)
       /\ UNCHANGED <<endNode, currentTool, isMousePressed, algorithm, comparisonMode,
                      selectedAlgorithms, clicks>>

\* The Visualize button: visualizeAlgorithm of the current render.
visualizeAlgorithm ==
  /\ requests < MaxRequests
  /\ requests' = requests + 1
  /\ VisualizeFrom(Closure(grid, algorithm, comparisonMode, selectedAlgorithms))

\* The space key: the registered handler tests isRunning, startNode and
\* endNode and calls the visualizeAlgorithm its render closed over.
handleKeyPress ==
  /\ requests < MaxRequests
  /\ requests' = requests + 1
  /\ IF isRunning \/ startNode = Null \/ endNode = Null
     THEN UNCHANGED <<grid, startNode, endNode, currentTool, isMousePressed, algorithm,
                      isRunning, metrics, error, comparisonMode,
                      selectedAlgorithms, keyClosure, playback, history,
                      events, clicks>>
     ELSE VisualizeFrom(keyClosure)

\* What the suspended call does after timer i of a phase has fired: the next
\* timer of the phase, the first path timer, or what follows the loops.
AfterTimerPathEarly(call) ==
  IF call.phase = "visited" /\ MaxPath(call.tracks) > 0
  THEN [call EXCEPT !.phase = "path", !.i = 1]
  ELSE IF call.phase = "visited" /\ call.i < MaxVisited(call.tracks)
  THEN [call EXCEPT !.i = call.i + 1]
  ELSE IF call.phase = "path" /\ call.i < MaxPath(call.tracks)
  THEN [call EXCEPT !.i = call.i + 1]
  ELSE AfterTracks(call)

AfterTimer(call) ==
  IF call.phase = "visited" /\ call.i < MaxVisited(call.tracks)
  THEN [call EXCEPT !.i = call.i + 1]
  ELSE IF call.phase = "visited" /\ MaxPath(call.tracks) > 0
  THEN [call EXCEPT !.phase = "path", !.i = 1]
  ELSE IF call.phase = "path" /\ call.i < MaxPath(call.tracks)
  THEN [call EXCEPT !.i = call.i + 1]
  ELSE AfterTracks(call)

\* The update of the "Visualize nodes" timer without the test of the tag.
VisitedTagAlways(g, node, tag) ==
  [g EXCEPT ![node.row][node.col].type = tag]

\* The grid after the update of the "Visualize nodes" timer for node.
VisitedTag(g, node, tag) ==
  IF g[node.row][node.col].type = "empty"
  THEN [g EXCEPT ![node.row][node.col].type = tag]
  ELSE g

\* The grid after the update of the "Visualize path" timer for node.
PathTag(g, node, tag) ==
  IF g[node.row][node.col].type # "start" /\ g[node.row][node.col].type # "end"
  THEN [g EXCEPT ![node.row][node.col].type = tag]
  ELSE g

RECURSIVE VisitedStep(_, _, _)
\* The setGrid update of visited timer i: the tracks in order.
VisitedStep(g, tracks, i) ==
  IF tracks = <<>> THEN g
  ELSE LET t == Head(tracks)
           g1 == IF i <= Len(t.visitedNodes)
                 THEN VisitedTag(g, t.visitedNodes[i], t.visitedTag)
                 ELSE g
       IN VisitedStep(g1, Tail(tracks), i)

RECURSIVE PathStep(_, _, _)
\* The setGrid update of path timer i: the tracks in order.
PathStep(g, tracks, i) ==
  IF tracks = <<>> THEN g
  ELSE LET t == Head(tracks)
           g1 == IF i <= Len(t.path) THEN PathTag(g, t.path[i], t.pathTag)
                 ELSE g
       IN PathStep(g1, Tail(tracks), i)

RECURSIVE EventsOf(_, _, _, _)
\* The events timer i of a phase fires, one per track that has a step i.
EventsOf(n, tracks, kind, i) ==
  IF tracks = <<>> THEN <<>>
  ELSE LET t == Head(tracks)
           nodes == IF kind = "visited" THEN t.visitedNodes ELSE t.path
       IN (IF i <= Len(nodes)
           THEN << [n |-> n, track |-> t.algo, kind |-> kind, i |-> i,
                    pos |-> <<nodes[i].row, nodes[i].col>>] >>
           ELSE <<>>)
          \o EventsOf(n, Tail(tracks), kind, i)

\* The sequence q without its element k.
Without(q, k) == SubSeq(q, 1, k - 1) \o SubSeq(q, k + 1, Len(q))

RECURSIVE LateMetrics(_, _)
\* The metrics a call sets after its playback (late) on top of base.
LateMetrics(base, tracks) ==
  IF tracks = <<>> THEN base
  ELSE LateMetrics([base EXCEPT ![Head(tracks).algo] = Metrics(Head(tracks))],
                   Tail(tracks))

\* The error state after a call that sets its metrics late.
LateError(call, err) ==
  IF call.late /\ Len(call.tracks) = 1 /\ MaxPath(call.tracks) = 0
  THEN [message |-> "No path found!"]
  ELSE err

\* The end of a call without the finally block: isRunning stays set.
ResumeWithoutFinally(k, next, g) ==
  IF next.phase = "idle"
  THEN /\ playback' = Without(playback, k)
       /\ isRunning' = isRunning
       /\ keyClosure' = keyClosure
       /\ metrics' = IF next.late THEN LateMetrics(metrics, next.tracks)
                     ELSE metrics
       /\ error' = LateError(next, error)
  ELSE /\ playback' = [playback EXCEPT ![k] = next]
       /\ UNCHANGED <<isRunning, keyClosure, metrics, error>>

\* The call playback[k] runs on from a fired timer to next: its next await,
\* or the end of the call with the finally block.
Resume(k, next, g) ==
  IF next.phase = "idle"
  THEN /\ playback' = Without(playback, k)
       /\ isRunning' = FALSE
       /\ keyClosure' = KeyClosureAfter(isRunning, g)
       /\ metrics' = IF next.late THEN LateMetrics(metrics, next.tracks)
                     ELSE metrics
       /\ error' = LateError(next, error)
  ELSE /\ playback' = [playback EXCEPT ![k] = next]
       /\ UNCHANGED <<isRunning, keyClosure, metrics, error>>

\* A timer of the "Visualize nodes" loop of a suspended call k fires.
VisitedTimer ==
  \E k \in 1..Len(playback) :
    LET call == playback[k]
        g == VisitedStep(grid, call.tracks, call.i)
    IN /\ call.phase = "visited"
       /\ grid' = g
       /\ events' = events \o EventsOf(call.n, call.tracks, "visited", call.i)
       /\ Resume(k, AfterTimer(call), g)
       /\ UNCHANGED <<startNode, endNode, currentTool, isMousePressed, algorithm, comparisonMode,
                      selectedAlgorithms, history, requests, clicks>>

\* A timer of the "Visualize path" loop of a suspended call k fires.
PathTimer ==
  \E k \in 1..Len(playback) :
    LET call == playback[k]
        g == PathStep(grid, call.tracks, call.i)
    IN /\ call.phase = "path"
       /\ grid' = g
       /\ events' = events \o EventsOf(call.n, call.tracks, "path", call.i)
       /\ Resume(k, AfterTimer(call), g)
       /\ UNCHANGED <<startNode, endNode, currentTool, isMousePressed, algorithm, comparisonMode,
                      selectedAlgorithms, history, requests, clicks>>

\* The delay between two algorithms of comparison mode ends: a call k goes on
\* with its next algorithm.
PauseTimer ==
  \E k \in 1..Len(playback) :
    LET call == playback[k]
    IN /\ call.phase = "pause"
       /\ BeginTrack(call.n, call.algos, call.grid, metrics, error,
                     Without(playback, k))
       /\ UNCHANGED <<endNode, currentTool, isMousePressed, algorithm, comparisonMode,
                      selectedAlgorithms, events, requests, clicks>>

Next ==
  \/ \E tool \in Tools : SetCurrentTool(tool)
  \/ \E a \in Algorithms : SetAlgorithm(a)
  \/ resetGrid
  \/ \E row \in 0..(Rows - 1), col \in 0..(Cols - 1) : handleNodeClick(row, col)
  \/ visualizeAlgorithm
  \/ VisitedTimer
  \/ PathTimer

Spec == Init /\ [][Next]_vars

\* The grid after wall clicks on walls, a start click on s and an end click on e.
PlacedGridOn(rows, cols, walls, s, e) ==
  [r \in 0..(rows - 1) |-> [c \in 0..(cols - 1) |->
     [NewNode(r, c) EXCEPT !.type =
        IF <<r, c>> = s THEN "start"
        ELSE IF <<r, c>> = e THEN "end"
        ELSE IF <<r, c>> \in walls THEN "wall" ELSE "empty"]]]

\* The App after the placement, before any run, after n clicks.
Placed(g, sNode, eNode, a, mode, n) ==
  /\ grid = g
  /\ startNode = sNode
  /\ endNode = eNode
  /\ currentTool = "end"
  /\ isMousePressed = FALSE
  /\ algorithm = a
  /\ isRunning = FALSE
  /\ metrics = NoMetrics
  /\ error = Null
  /\ comparisonMode = mode
  /\ selectedAlgorithms = {}
  /\ keyClosure = Closure(g, a, mode, {})
  /\ playback = <<>>
  /\ history = NoHistory
  /\ events = <<>>
  /\ requests = 0
  /\ clicks = n

(***************************************************************************)
(* The keyboard.  SpecKeys starts from the App as it is after a start      *)
(* click and an end click on a fresh grid and adds the space key to the    *)
(* tools, the selector, the clicks, the button and the timers.             *)
(***************************************************************************)

InitKeys ==
  \E s \in Cells(createInitialGrid(Rows, Cols)),
     e \in Cells(createInitialGrid(Rows, Cols)) :
    /\ s # e
    /\ Placed(PlacedGridOn(Rows, Cols, {}, s, e), NewNode(s[1], s[2]),
              NewNode(e[1], e[2]), "dijkstra", "single", 2)

NextKeys ==
  \/ \E tool \in Tools : SetCurrentTool(tool)
  \/ \E a \in Algorithms : SetAlgorithm(a)
  \/ \E row \in 0..(Rows - 1), col \in 0..(Cols - 1) : handleNodeClick(row, col)
  \/ visualizeAlgorithm
  \/ handleKeyPress
  \/ VisitedTimer
  \/ PathTimer

SpecKeys == InitKeys /\ [][NextKeys]_vars

(***************************************************************************)
(* The mouse.  SpecDrag starts like SpecKeys and adds the press, enter and *)
(* release handlers of a drag and the reset to the tools, the clicks, the  *)
(* button, the space key and the timers; the algorithm stays dijkstra.     *)
(***************************************************************************)

NextDrag ==
  \/ \E tool \in Tools : SetCurrentTool(tool)
  \/ \E row \in 0..(Rows - 1), col \in 0..(Cols - 1) : handleNodeClick(row, col)
  \/ \E row \in 0..(Rows - 1), col \in 0..(Cols - 1) : handleMouseDown(row, col)
  \/ \E row \in 0..(Rows - 1), col \in 0..(Cols - 1) : handleMouseEnter(row, col)
  \/ handleMouseUp
  \/ resetGrid
  \/ visualizeAlgorithm
  \/ handleKeyPress
  \/ VisitedTimer
  \/ PathTimer

SpecDrag == InitKeys /\ [][NextDrag]_vars

\* SpecDrag with every timer that was set firing in the end: a pending
\* setTimeout callback is run by the event loop.
LiveDrag ==
  /\ SpecDrag
  /\ WF_vars(VisitedTimer)
  /\ WF_vars(PathTimer)

(***************************************************************************)
(* Runs on a larger grid.  SpecRun starts from the App as it is after      *)
(* walls, a start and an end were placed on a fresh grid (the start and    *)
(* end objects were captured before the cell was tagged), and then only    *)
(* selects algorithms, runs them and plays the results back.               *)
(***************************************************************************)

SearchRows == 3
SearchCols == 3
MaxWalls == 2

SearchCells == (0..(SearchRows - 1)) \X (0..(SearchCols - 1))

\* The grid after wall clicks on walls, a start click on s and an end click on e.
PlacedGrid(walls, s, e) == PlacedGridOn(SearchRows, SearchCols, walls, s, e)

InitRun ==
  \E walls \in SUBSET SearchCells, s \in SearchCells, e \in SearchCells :
    /\ Cardinality(walls) <= MaxWalls
    /\ s # e /\ s \notin walls /\ e \notin walls
    /\ Placed(PlacedGrid(walls, s, e), NewNode(s[1], s[2]), NewNode(e[1], e[2]),
              "dijkstra", "single", 0)

NextRun ==
  \/ \E a \in Algorithms : SetAlgorithm(a)
  \/ visualizeAlgorithm
  \/ VisitedTimer
  \/ PathTimer

SpecRun == InitRun /\ [][NextRun]_vars

(***************************************************************************)
(* Comparison mode of the App.  SpecComparison starts from a placed grid   *)
(* and adds the mode selector, the check boxes of the algorithms, the      *)
(* space key and the delay between two algorithms.                         *)
(***************************************************************************)

ComparisonRows == 2
ComparisonCols == 2
ComparisonWalls == 1

ComparisonCells == (0..(ComparisonRows - 1)) \X (0..(ComparisonCols - 1))

InitComparison ==
  \E walls \in SUBSET ComparisonCells, s \in ComparisonCells,
     e \in ComparisonCells :
    /\ Cardinality(walls) <= ComparisonWalls
    /\ s # e /\ s \notin walls /\ e \notin walls
    /\ Placed(PlacedGridOn(ComparisonRows, ComparisonCols, walls, s, e),
              NewNode(s[1], s[2]), NewNode(e[1], e[2]), "dijkstra", "single", 0)

NextComparison ==
  \/ \E mode \in ComparisonModes : SetComparisonMode(mode)
  \/ \E a \in Algorithms, checked \in BOOLEAN : SetSelectedAlgorithms(a, checked)
  \/ visualizeAlgorithm
  \/ handleKeyPress
  \/ VisitedTimer
  \/ PathTimer
  \/ PauseTimer

SpecComparison == InitComparison /\ [][NextComparison]_vars

(***************************************************************************)
(* The App with the algorithm kind 'compare', which runs dijkstra and      *)
(* astar on copies of the grid and plays both results in the same timers.  *)
(***************************************************************************)

CompareKinds == {"dijkstra", "astar", "compare"}
\* A value of the algorithm state outside its declared type.
UnknownKind == "unknown"

CompareTags == {"visited", "path", "visited-dijkstra", "visited-astar",
                "path-dijkstra", "path-astar"}

\* "Reset grid visualization" of the App with 'compare'.
ResetVisualizationCompare(g) ==
  [r \in DOMAIN g |-> [c \in DOMAIN g[r] |->
     [g[r][c] EXCEPT !.distance = Infinity, !.gScore = Infinity,
                     !.fScore = Infinity, !.hScore = 0, !.isVisited = FALSE,
                     !.previousNode = <<>>,
                     !.type = IF @ \in CompareTags THEN "empty" ELSE @]]]

\* runAlgorithm: the conditional on the kind.
runAlgorithm(type, g, sNode, eNode) ==
  IF type = "dijkstra" THEN dijkstra(g, sNode, eNode)
  ELSE astar(g, sNode, eNode)

\* The metrics slot a single run of kind a fills.
MetricsSlot(a) == IF a = "dijkstra" THEN "dijkstra" ELSE "astar"

RECURSIVE HistoryOf(_, _, _, _)
\* The runs of the tracks, recorded per algorithm.
HistoryOf(h, n, layout, tracks) ==
  IF tracks = <<>> THEN h
  ELSE HistoryOf([h EXCEPT ![Head(tracks).algo] =
                    [n |-> n, layout |-> layout,
                     visitedNodes |-> Head(tracks).visitedNodes,
                     path |-> Head(tracks).path]],
                 n, layout, Tail(tracks))

\* visualizeAlgorithm of the App with 'compare', as the render c closed over
\* it, up to its first await.
CompareFrom(c) ==
  IF startNode = Null \/ endNode = Null
  THEN /\ error' = [message |-> "Please set both start and end points"]
       /\ isRunning' = FALSE
       /\ keyClosure' = KeyClosureAfter(isRunning, grid)
       /\ UNCHANGED <<grid, startNode, endNode, currentTool, isMousePressed, algorithm,
                      metrics, comparisonMode, selectedAlgorithms, playback,
                      history, events, clicks>>
  ELSE LET newGrid == ResetVisualizationCompare(c.grid)
           dijkstraResult == runAlgorithm("dijkstra", newGrid, startNode, endNode)
           astarResult == runAlgorithm("astar", newGrid, dijkstraResult.start,
                                       endNode)
           result == runAlgorithm(c.algorithm, newGrid, startNode, endNode)
           compare == c.algorithm = "compare"
           tracks == IF compare
                     THEN << Track("dijkstra", dijkstraResult,
                                   "visited-dijkstra", "path-dijkstra"),
                             Track("astar", astarResult,
                                   "visited-astar", "path-astar") >>
                     ELSE << Track(MetricsSlot(c.algorithm), result,
                                   "visited", "path") >>
           call == PlaybackOf([n |-> requests + 1, tracks |-> tracks,
                               algos |-> <<>>, grid |-> c.grid, late |-> TRUE,
                               phase |-> "idle", i |-> 0])
           done == call.phase = "idle"
           g == IF compare THEN newGrid ELSE result.grid
       IN /\ grid' = g
          /\ startNode' = IF compare THEN astarResult.start ELSE result.start
          /\ metrics' = IF done THEN LateMetrics(NoMetrics, tracks) ELSE NoMetrics
          /\ error' = IF done THEN LateError(call, Null) ELSE Null
          /\ playback' = IF done THEN playback ELSE Append(playback, call)
          /\ isRunning' = ~done
          /\ keyClosure' = KeyClosureAfter(isRunning # ~done, g)
          /\ history' = HistoryOf(history, requests + 1,
                                  Layout(newGrid, startNode, endNode), tracks)
          /\ events' = <<>>
          /\ UNCHANGED <<endNode, currentTool, isMousePressed, algorithm, comparisonMode,
                         selectedAlgorithms, clicks>>

\* The Visualize / Compare button, disabled without start or end and while
\* running.
visualizeAlgorithmCompare ==
  /\ requests < MaxRequests
  /\ requests' = requests + 1
  /\ IF startNode = Null \/ endNode = Null \/ isRunning
     THEN UNCHANGED <<grid, startNode, endNode, currentTool, isMousePressed, algorithm,
                      isRunning, metrics, error, comparisonMode,
                      selectedAlgorithms, keyClosure, playback, history,
                      events, clicks>>
     ELSE CompareFrom(Closure(grid, algorithm, comparisonMode,
                              selectedAlgorithms))

\* The space key of the App with 'compare'.
handleKeyPressCompare ==
  /\ requests < MaxRequests
  /\ requests' = requests + 1
  /\ IF isRunning \/ startNode = Null \/ endNode = Null
     THEN UNCHANGED <<grid, startNode, endNode, currentTool, isMousePressed, algorithm,
                      isRunning, metrics, error, comparisonMode,
                      selectedAlgorithms, keyClosure, playback, history,
                      events, clicks>>
     ELSE CompareFrom(keyClosure)

CompareRows == 2
CompareCols == 3
CompareWalls == 1

CompareCells == (0..(CompareRows - 1)) \X (0..(CompareCols - 1))

\* The placed grid; handleNodeClick of this App captures the tagged copy of
\* the clicked node.
InitCompare ==
  \E walls \in SUBSET CompareCells, s \in CompareCells, e \in CompareCells,
     a \in CompareKinds \cup {UnknownKind} :
    /\ Cardinality(walls) <= CompareWalls
    /\ s # e /\ s \notin walls /\ e \notin walls
    /\ Placed(PlacedGridOn(CompareRows, CompareCols, walls, s, e),
              [NewNode(s[1], s[2]) EXCEPT !.type = "start"],
              [NewNode(e[1], e[2]) EXCEPT !.type = "end"], a, "single", 0)

NextCompare ==
  \/ \E a \in CompareKinds : SetAlgorithm(a)
  \/ visualizeAlgorithmCompare
  \/ handleKeyPressCompare
  \/ VisitedTimer
  \/ PathTimer

SpecCompare == InitCompare /\ [][NextCompare]_vars

\* SpecCompare with every timer that was set firing in the end.
LiveCompare ==
  /\ SpecCompare
  /\ WF_vars(VisitedTimer)
  /\ WF_vars(PathTimer)

(***************************************************************************)
(* Runs on the layouts of a 4x5 grid on which a frontier entry of astar    *)
(* can get a lower key while it waits: walls drawn from three cells, the   *)
(* start in the first column and the end in the last.                      *)
(***************************************************************************)

FrontierRows == 4
FrontierCols == 5
FrontierWalls == {<<1, 1>>, <<2, 1>>, <<0, 3>>}

InitFrontier ==
  \E walls \in SUBSET FrontierWalls, sr \in 0..(FrontierRows - 1),
     er \in 0..(FrontierRows - 1) :
    LET s == <<sr, 0>>
        e == <<er, FrontierCols - 1>>
    IN Placed(PlacedGridOn(FrontierRows, FrontierCols, walls, s, e),
              NewNode(s[1], s[2]), NewNode(e[1], e[2]), "dijkstra", "single", 0)

SpecFrontier == InitFrontier /\ [][NextRun]_vars

(***************************************************************************)
(* Properties                                                              *)
(***************************************************************************)

RECURSIVE Positions(_)
\* The cells of a sequence of nodes.
Positions(nodes) ==
  IF nodes = <<>> THEN <<>>
  ELSE << <<Head(nodes).row, Head(nodes).col>> >> \o Positions(Tail(nodes))

SameCell(a, b) == a.row = b.row /\ a.col = b.col

\* C1: determinism. A step that runs algorithm a again on the layout of its
\* previous run returns the same visited sequence and the same path, cell by
\* cell.
C1_Determinism ==
  [][\A a \in Algorithms :
       (/\ history[a] # Null
        /\ history'[a] # Null
        /\ history'[a].layout = history[a].layout)
       => /\ Positions(history'[a].visitedNodes) = Positions(history[a].visitedNodes)
          /\ Positions(history'[a].path) = Positions(history[a].path)]_vars

\* C2: a non-empty path returned by any algorithm begins at the start cell
\* and ends at the end cell of the layout it was computed on.
C2_PathEndpoints ==
  \A a \in Algorithms :
    (history[a] # Null /\ history[a].path # <<>>)
    => /\ Positions(history[a].path)[1] = history[a].layout.start
       /\ Positions(history[a].path)[Len(history[a].path)] = history[a].layout.end

\* C3: a call of visualizeAlgorithm made while start is unset, end is unset or
\* start and end are the same cell changes no grid or node field and runs no
\* algorithm.
C3_RejectsInvalidEndpoints ==
  [][(/\ requests' = requests + 1
      /\ \/ startNode = Null
         \/ endNode = Null
         \/ SameCell(startNode, endNode))
     => UNCHANGED <<grid, startNode, endNode, metrics, playback, isRunning,
                    history>>]_vars

\* C4: whenever both a start and an end are recorded they are different cells.
C4_StartDiffersFromEnd ==
  (startNode # Null /\ endNode # Null) => ~SameCell(startNode, endNode)

\* C5: the cell at the recorded start position and the cell at the recorded
\* end position are never tagged wall.
C5_EndpointsNotWall ==
  /\ startNode # Null => grid[startNode.row][startNode.col].type # "wall"
  /\ endNode # Null => grid[endNode.row][endNode.col].type # "wall"

Tagged(g, tag) == {p \in Cells(g) : g[p[1]][p[2]].type = tag}

\* C6: at most one cell of the grid is tagged start and at most one cell is
\* tagged end.
C6_AtMostOneStartAndEnd ==
  /\ Cardinality(Tagged(grid, "start")) <= 1
  /\ Cardinality(Tagged(grid, "end")) <= 1

\* A run has been played back to its end on a grid that holds a start tag and
\* an end tag, after the start was placed, the end was placed and one of them
\* was placed again.
C6_Witness ==
  /\ Cardinality(Tagged(grid, "start")) = 1
  /\ Cardinality(Tagged(grid, "end")) = 1
  /\ clicks >= 3
  /\ requests >= 1
  /\ ~isRunning
  /\ Tagged(grid, "visited") \cup Tagged(grid, "path") # {}

\* All in-bounds neighbours of cell p are walls of the layout.
Isolated(layout, rows, cols) ==
  \A q \in (0..(rows - 1)) \X (0..(cols - 1)) :
    (Abs(q[1] - layout.start[1]) + Abs(q[2] - layout.start[2]) = 1)
    => q \in layout.walls

Manhattan(p, q) == Abs(p[1] - q[1]) + Abs(p[2] - q[2])

\* C7: on a wall-free grid with distinct start and end, the paths of bfs and
\* of dijkstra both have Manhattan distance + 1 nodes (and so the same length).
C7_WallFreePathLength ==
  \A a \in {"bfs", "dijkstra"} :
    (/\ history[a] # Null
     /\ history[a].layout.walls = {}
     /\ history[a].layout.start # history[a].layout.end)
    => Len(history[a].path)
         = Manhattan(history[a].layout.start, history[a].layout.end) + 1

\* C8: on the same grid, start and end, astar visits no more nodes than
\* dijkstra.
C8_AstarVisitsNoMore ==
  (/\ history["astar"] # Null
   /\ history["dijkstra"] # Null
   /\ history["astar"].layout = history["dijkstra"].layout)
  => Len(history["astar"].visitedNodes) <= Len(history["dijkstra"].visitedNodes)

\* C9: when every in-bounds neighbour of the start cell is a wall, the path is
\* empty and the visited sequence is exactly the start node.
C9_Isolation ==
  \A a \in Algorithms :
    (history[a] # Null /\ Isolated(history[a].layout, NumRows(grid), NumCols(grid)))
    => /\ history[a].path = <<>>
       /\ Positions(history[a].visitedNodes) = <<history[a].layout.start>>

Scenario3x3 == [walls |-> {}, start |-> <<0, 0>>, end |-> <<2, 2>>]

\* C10: on the 3x3 grid without walls, start (0,0), end (2,2): bfs and
\* dijkstra return 5 nodes, astar returns 5 nodes and visits no more than bfs.
C10_Scenario ==
  (NumRows(grid) = 3 /\ NumCols(grid) = 3)
  => /\ \A a \in Algorithms :
          (history[a] # Null /\ history[a].layout = Scenario3x3)
          => Len(history[a].path) = 5
     /\ (/\ history["astar"] # Null /\ history["bfs"] # Null
         /\ history["astar"].layout = Scenario3x3
         /\ history["bfs"].layout = Scenario3x3)
        => Len(history["astar"].visitedNodes) <= Len(history["bfs"].visitedNodes)

\* C11: every run terminates, and its visited sequence (one entry per finalize
\* operation) has at most rows x cols entries.
C11_VisitedBound ==
  \A a \in Algorithms :
    history[a] # Null
    => Len(history[a].visitedNodes) <= NumRows(grid) * NumCols(grid)

\* The suspended calls that have a step still to fire.
ActivePlaybacks ==
  {k \in 1..Len(playback) : playback[k].phase \in {"visited", "path", "pause"}}

\* C12: at most one playback is active at any time: there is never a state
\* in which two suspended calls both have steps still to fire, whatever the
\* interleaving of button and space key requests with the timers.
C12_OnePlayback == Cardinality(ActivePlaybacks) <= 1

\* The playback of request 1 is still active after request 2 was made.
C12_Witness ==
  /\ requests = 2
  /\ Len(playback) = 1
  /\ playback[1].n = 1
  /\ playback[1].phase \in {"visited", "path"}

\* The events the playback of the run h of algorithm a fires, in order.
ExpectedEvents(a, h) ==
  [j \in 1..(Len(h.visitedNodes) + Len(h.path)) |->
     IF j <= Len(h.visitedNodes)
     THEN [n |-> h.n, track |-> a, kind |-> "visited", i |-> j,
           pos |-> <<h.visitedNodes[j].row, h.visitedNodes[j].col>>]
     ELSE [n |-> h.n, track |-> a, kind |-> "path",
           i |-> j - Len(h.visitedNodes),
           pos |-> <<h.path[j - Len(h.visitedNodes)].row,
                     h.path[j - Len(h.visitedNodes)].col>>]]

\* C14: the playback of one result fires its visited-cell events one at a
\* time in visitation order, then its path-cell events in path order: the
\* events fired so far are a prefix of that sequence.
C14_PlaybackOrder ==
  events # <<>>
  => LET a == events[1].track
         expected == ExpectedEvents(a, history[a])
     IN /\ history[a] # Null
        /\ Len(events) <= Len(expected)
        /\ \A j \in 1..Len(events) : events[j] = expected[j]

\* A playback with a path of three cells or more has fired all its events.
C14_Witness ==
  /\ events # <<>>
  /\ ~isRunning
  /\ history[events[1].track] # Null
  /\ Len(history[events[1].track].path) >= 3
  /\ Len(events) = Len(history[events[1].track].visitedNodes)
                     + Len(history[events[1].track].path)
  /\ events[Len(events)].kind = "path"

\* C15: a step that fires visited-cell events changes the tag of a cell only
\* if the cell was tagged empty; start, end and wall tags stay, in single mode
\* and in the tracks of a comparison.
C15_VisitedOnlyOverEmpty ==
  [][(/\ Len(events') > Len(events)
      /\ events'[Len(events')].kind = "visited")
     => \A p \in Cells(grid) :
          grid'[p[1]][p[2]].type # grid[p[1]][p[2]].type
          => grid[p[1]][p[2]].type = "empty"]_vars

\* Both tracks of a comparison have fired their visited event on the start
\* cell, and the cell is still tagged start.
C15_Witness ==
  /\ Len(playback) = 1
  /\ Len(playback[1].tracks) = 2
  /\ \E j, k \in 1..Len(events) :
       /\ events[j].kind = "visited" /\ events[j].track = "dijkstra"
       /\ events[k].kind = "visited" /\ events[k].track = "astar"
       /\ events[j].pos = events[k].pos
       /\ grid[events[j].pos[1]][events[j].pos[2]].type = "start"
  /\ \E p \in Cells(grid) : grid[p[1]][p[2]].type = "visited-astar"

\* The place of an event in a playback that is interleaved by step index.
Rank(e) == IF e.kind = "visited" THEN e.i ELSE Infinity + e.i

\* C16: in a comparison of two or more tracks, step i of every track fires
\* before step i+1 of any track: no event of one track fires after a later
\* step of another track.
C16_Interleaved ==
  \A j, k \in 1..Len(events) :
    (j < k /\ events[j].track # events[k].track)
    => Rank(events[j]) <= Rank(events[k])

\* The tags that are the display channel of a track.
ChannelTags(track) ==
  IF track = "dijkstra" THEN {"visited-dijkstra", "path-dijkstra"}
  ELSE {"visited-astar", "path-astar"}

\* C17: in a comparison each track writes its own channel of a cell: once a
\* track has fired its visited event on a cell that is not start, end or
\* wall, the cell shows that track's tag, whatever the other track did there.
C17_TrackChannels ==
  (Len(playback) = 1 /\ Len(playback[1].tracks) = 2)
  => \A j \in 1..Len(events) :
       LET e == events[j]
           tag == grid[e.pos[1]][e.pos[2]].type
       IN (e.kind = "visited" /\ tag \notin {"start", "end", "wall"})
          => tag \in ChannelTags(e.track)

RECURSIVE Flood(_, _, _, _)
\* The cells connected to a cell of seen by a chain of non-wall neighbours.
Flood(seen, walls, rows, cols) ==
  LET next == seen \cup
        {q \in (0..(rows - 1)) \X (0..(cols - 1)) :
           q \notin walls /\ \E p \in seen : Manhattan(p, q) = 1}
  IN IF next = seen THEN seen ELSE Flood(next, walls, rows, cols)

Reachable(layout, rows, cols) ==
  layout.end \in Flood({layout.start}, layout.walls, rows, cols)

\* C18: when the end cell is unreachable from the start cell the run returns
\* an empty path and pathFound = false, no error is raised, and the App is
\* running exactly as long as a playback is suspended, as after any run.
C18_NoPathIsNormal ==
  /\ isRunning <=> playback # <<>>
  /\ \A a \in Algorithms :
       (/\ history[a] # Null
        /\ ~Reachable(history[a].layout, NumRows(grid), NumCols(grid)))
       => /\ history[a].path = <<>>
          /\ error = Null
          /\ metrics[a] # Null => ~metrics[a].pathFound

\* A run on a layout whose end is unreachable visited two cells or more and
\* was played back to its end.
C18_Witness ==
  /\ ~isRunning
  /\ \E a \in Algorithms :
       /\ history[a] # Null
       /\ ~Reachable(history[a].layout, NumRows(grid), NumCols(grid))
       /\ Len(history[a].visitedNodes) >= 2
       /\ Len(events) = Len(history[a].visitedNodes)
       /\ events[1].track = a

KnownKinds == {"bfs", "dfs", "dijkstra", "astar"}

\* C19: a run request that is dispatched on an algorithm kind other than bfs,
\* dfs, dijkstra and astar (or the comparison of them) fails with an error and
\* runs no algorithm.
C19_UnknownKindFails ==
  [][(/\ requests' = requests + 1
      /\ ~isRunning /\ startNode # Null /\ endNode # Null
      /\ algorithm \notin KnownKinds \cup {"compare"}
      /\ keyClosure.algorithm = algorithm)
     => /\ error' # Null
        /\ playback' = playback
        /\ history' = history]_vars

\* C20: the metrics of a run are the length of its visited sequence, the
\* length of its path and whether the path is non-empty.
C20_Metrics ==
  \A a \in Algorithms :
    (metrics[a] # Null /\ history[a] # Null)
    => /\ metrics[a].nodesVisited = Len(history[a].visitedNodes)
       /\ metrics[a].pathLength = Len(history[a].path)
       /\ metrics[a].pathFound = (history[a].path # <<>>)

\* The metrics of a run that found a path of three cells or more after
\* visiting more cells than the path has.
C20_Witness ==
  \E a \in Algorithms :
    /\ metrics[a] # Null /\ history[a] # Null
    /\ metrics[a].pathFound
    /\ metrics[a].pathLength >= 3
    /\ metrics[a].nodesVisited > metrics[a].pathLength

\* The cells one step up, down, left and right of p that lie on a grid of
\* rows x cols cells, in that order.
FourNeighbours(p, rows, cols) ==
  SelectSeq(<< <<p[1] - 1, p[2]>>, <<p[1] + 1, p[2]>>,
               <<p[1], p[2] - 1>>, <<p[1], p[2] + 1>> >>,
            LAMBDA q : q[1] \in 0..(rows - 1) /\ q[2] \in 0..(cols - 1))

\* C21: for every cell of the grid, the neighbour enumeration of bfs returns
\* the in-bounds neighbours in the order up, down, left, right, and the
\* enumeration of dijkstra and astar, which asks for the unvisited ones,
\* returns the same sequence without exactly the cells marked visited.
C21_Neighbors ==
  \A p \in Cells(grid) :
    LET node == grid[p[1]][p[2]]
        all == FourNeighbours(p, NumRows(grid), NumCols(grid))
    IN /\ getUnvisitedNeighbors(node, grid) = all
       /\ getValidNeighbors(node, grid) =
            SelectSeq(all, LAMBDA q : ~grid[q[1]][q[2]].isVisited)

\* After a run, a cell with four in-bounds neighbours of which some are marked
\* visited and some are not.
C21_Witness ==
  /\ requests >= 1
  /\ \E p \in Cells(grid) :
       /\ Len(getUnvisitedNeighbors(grid[p[1]][p[2]], grid)) = 4
       /\ Len(getValidNeighbors(grid[p[1]][p[2]], grid)) \in {1, 2, 3}

\* The state of a run of algorithm a when its while loop begins: the reset
\* loop over the grid and the seeding of the frontier with the start object.
StartOf(a, g, sNode, eNode) ==
  CASE a = "dijkstra" -> DijkstraStart(g, sNode)
    [] a = "astar" -> AstarStart(g, sNode, eNode)
    [] a = "bfs" -> BfsStart(g, sNode)

Roles == {"wall", "start", "end"}

\* C22: when a run begins, every node it works on (the nodes of its grid and
\* the start object that seeds its frontier) has its visited flag and its
\* predecessor cleared, the grid nodes have their cost fields cleared, and
\* the cells tagged wall, start and end are the same as before the reset.
C22_ScratchCleared ==
  (startNode # Null /\ endNode # Null /\ ~isRunning)
  => \A a \in Algorithms :
       LET s == StartOf(a, ResetVisualization(grid), startNode, endNode)
       IN /\ ~startNode.isVisited
          /\ startNode.previousNode = <<>>
          /\ \A p \in Cells(grid) :
               LET node == s.grid[p[1]][p[2]]
               IN /\ ~node.isVisited
                  /\ node.previousNode = <<>>
                  /\ a = "dijkstra" => node.distance = Infinity
                  /\ a = "astar" => node.gScore = Infinity /\ node.fScore = Infinity
                  /\ (node.type \in Roles \/ grid[p[1]][p[2]].type \in Roles)
                     => node.type = grid[p[1]][p[2]].type

RECURSIVE HopsWithin(_, _, _, _, _, _)
\* The number of steps between non-wall neighbours it takes to get from a
\* cell of seen to target, where seen was reached in d steps; Infinity if
\* there is no such chain.
HopsWithin(seen, d, target, walls, rows, cols) ==
  IF target \in seen THEN d
  ELSE LET next == seen \cup
             {q \in (0..(rows - 1)) \X (0..(cols - 1)) :
                q \notin walls /\ \E p \in seen : Manhattan(p, q) = 1}
       IN IF next = seen THEN Infinity
          ELSE HopsWithin(next, d + 1, target, walls, rows, cols)

\* The length in hops of a shortest path of the layout.
ShortestHops(layout, rows, cols) ==
  HopsWithin({layout.start}, 0, layout.end, layout.walls, rows, cols)

\* C23: when the end of the layout is reachable from its start, the path bfs
\* returns has as many hops as a shortest path of the layout.
C23_BfsShortest ==
  (/\ history["bfs"] # Null
   /\ Reachable(history["bfs"].layout, NumRows(grid), NumCols(grid)))
  => Len(history["bfs"].path) - 1
       = ShortestHops(history["bfs"].layout, NumRows(grid), NumCols(grid))

\* C24: when the end of the layout is reachable from its start, the path
\* astar returns has as many hops as a shortest path of the layout, and the
\* gScore of the goal, its last node, is that number.
C24_AstarShortest ==
  (/\ history["astar"] # Null
   /\ Reachable(history["astar"].layout, NumRows(grid), NumCols(grid)))
  => LET path == history["astar"].path
         hops == ShortestHops(history["astar"].layout, NumRows(grid), NumCols(grid))
     IN /\ Len(path) - 1 = hops
        /\ path # <<>> => path[Len(path)].gScore = hops

\* No two entries of seq are equal.
Distinct(seq) ==
  \A i, j \in 1..Len(seq) : i # j => seq[i] # seq[j]

\* The cells that entered the frontier of a finished bfs run s, in order:
\* those that were dequeued, then those still in the queue.
Enqueued(s) ==
  Positions(s.visitedNodes)
    \o [i \in 1..Len(s.queue) |-> <<s.queue[i][2], s.queue[i][3]>>]

\* C25: in the bfs run a request starts from the current grid, start and end,
\* every cell enters the frontier at most once.
C25_EnqueuedOnce ==
  (startNode # Null /\ endNode # Null /\ ~isRunning)
  => Distinct(Enqueued(bfs(ResetVisualization(grid), startNode, endNode)))

\* One iteration of the while loop of a, and the field its frontier is
\* sorted by.
StepOf(a, s, e) == IF a = "dijkstra" THEN DijkstraStep(s, e) ELSE AstarStep(s, e)

KeyOf(a) == IF a = "dijkstra" THEN "distance" ELSE "fScore"

\* The place of the latest insertion of x in the insertion order.
IndexIn(order, x) ==
  CHOOSE i \in 1..Len(order) :
    order[i] = x /\ \A j \in (i + 1)..Len(order) : order[j] # x

\* The frontier entries of s that have the key of the entry the next pop
\* takes.
TiedWithPop(a, s) ==
  LET cur == Head(SortQueue(s.queue, s, KeyOf(a)))
  IN {i \in 1..Len(s.queue) :
        Deref(s, s.queue[i])[KeyOf(a)] = Deref(s, cur)[KeyOf(a)]}

RECURSIVE StablePops(_, _, _, _)
\* From state s of a run of a on, where order lists the frontier insertions
\* so far: at every pop the popped entry was inserted no later than any
\* frontier entry of equal key.
StablePops(a, s, e, order) ==
  IF s.done \/ s.queue = <<>> THEN TRUE
  ELSE LET cur == Head(SortQueue(s.queue, s, KeyOf(a)))
           next == StepOf(a, s, e)
           pushed == SubSeq(next.queue, Len(s.queue), Len(next.queue))
       IN /\ \A i \in TiedWithPop(a, s) :
               IndexIn(order, cur) <= IndexIn(order, s.queue[i])
          /\ StablePops(a, next, e, order \o pushed)

\* C26: in the run of dijkstra or astar a request starts from the current
\* grid, start and end, whenever a pop finds entries of equal key in the
\* frontier it takes the one that was inserted first.
C26_StableTieBreak ==
  (startNode # Null /\ endNode # Null /\ ~isRunning)
  => \A a \in {"dijkstra", "astar"} :
       LET s == StartOf(a, ResetVisualization(grid), startNode, endNode)
       IN StablePops(a, s, endNode, s.queue)

\* C27: the path a run of any algorithm returns is empty unless the root of
\* the predecessor chain of the goal, its first node, is the start cell of
\* the layout the run was made on.
C27_ChainFromStart ==
  \A a \in Algorithms :
    history[a] # Null
    => \/ history[a].path = <<>>
       \/ PosOf(history[a].path[1])
            = [row |-> history[a].layout.start[1],
               col |-> history[a].layout.start[2]]

\* C28: a step that runs an algorithm leaves every node object outside the
\* grid it passes to the algorithm as it was (the object held in startNode
\* and the one held in endNode), and the nodes of that grid keep their row,
\* col and display tag.
C28_WritesOnlyGrid ==
  [][(/\ requests' = requests + 1
      /\ ~Rejects(startNode, endNode, isRunning))
     => /\ startNode' = startNode
        /\ endNode' = endNode
        /\ \A p \in Cells(grid) :
             /\ grid'[p[1]][p[2]].row = p[1]
             /\ grid'[p[1]][p[2]].col = p[2]
             /\ grid'[p[1]][p[2]].type = ResetVisualization(grid)[p[1]][p[2]].type]_vars

\* C29: after tool clicks alone (no run was requested yet), the cell at the
\* position of the recorded start is tagged start and the cell at the
\* position of the recorded end is tagged end.
C29_EndpointsTagged ==
  requests = 0
  => /\ startNode # Null => grid[startNode.row][startNode.col].type = "start"
     /\ endNode # Null => grid[endNode.row][endNode.col].type = "end"

\* C30: the visited sequence of a run of any algorithm holds each cell once
\* at most, the start cell included.
C30_VisitedOnce ==
  \A a \in Algorithms :
    history[a] # Null => Distinct(Positions(history[a].visitedNodes))

\* The run recorded in h finalized the goal: its last visited cell is the end
\* cell of its layout.
GoalFinalized(h) ==
  /\ h.visitedNodes # <<>>
  /\ Positions(h.visitedNodes)[Len(h.visitedNodes)] = h.layout.end

\* C31: whenever a run of dijkstra or astar finalizes the goal, the path it
\* returns is non-empty and begins at the start cell with zero accumulated
\* cost; the validation of the path reconstruction discards nothing.
C31_GoalKeepsPath ==
  \A a \in {"dijkstra", "astar"} :
    (history[a] # Null /\ GoalFinalized(history[a]))
    => /\ history[a].path # <<>>
       /\ Positions(history[a].path)[1] = history[a].layout.start
       /\ history[a].path[1][IF a = "dijkstra" THEN "distance" ELSE "gScore"] = 0

C33_RunEnds == isRunning ~> ~isRunning

\* A run that found no path and a later run that found one were both played
\* back to the end, with an edit in between.
C33_Witness ==
  /\ ~isRunning
  /\ playback = <<>>
  /\ requests >= 2
  /\ clicks >= 3
  /\ events # <<>>
  /\ history["dijkstra"] # Null
  /\ history["dijkstra"].path # <<>>

\* C34: in every non-empty path an algorithm returns, consecutive nodes are
\* 4-directional neighbours, no cell appears twice, and no node lies on a
\* wall cell of the layout the run worked on.
C34_PathWellFormed ==
  \A a \in Algorithms :
    (history[a] # Null /\ history[a].path # <<>>)
    => LET cells == Positions(history[a].path)
       IN /\ \A i \in 1..(Len(cells) - 1) : Manhattan(cells[i], cells[i + 1]) = 1
          /\ Distinct(cells)
          /\ \A i \in 1..Len(cells) : cells[i] \notin history[a].layout.walls

\* The distance each node carries at the moment the while loop of dijkstra
\* finalizes it (marks it visited and appends it to the visited nodes), in
\* the order of finalization, from the run state s on.
RECURSIVE FinalizedDistances(_, _)
FinalizedDistances(s, e) ==
  IF s.done \/ s.queue = <<>> THEN <<>>
  ELSE LET cur == Head(SortQueue(s.queue, s, "distance"))
           t == DijkstraStep(s, e)
       IN (IF Len(t.visitedNodes) > Len(s.visitedNodes)
           THEN <<Deref(s, cur).distance>> ELSE <<>>)
          \o FinalizedDistances(t, e)

\* C35: in the dijkstra run a request starts from the current grid, start and
\* end, the nodes are finalized in non-decreasing order of distance, and the
\* distance of each finalized node is the number of hops of a shortest
\* wall-free route from the start cell to it.
C35_FinalizedDistances ==
  (startNode # Null /\ endNode # Null /\ ~isRunning)
  => LET g == ResetVisualization(grid)
         d == FinalizedDistances(DijkstraStart(g, startNode), endNode)
         v == Positions(dijkstra(g, startNode, endNode).visitedNodes)
     IN /\ Len(d) = Len(v)
        /\ \A i \in 1..(Len(d) - 1) : d[i] <= d[i + 1]
        /\ \A i \in 1..Len(d) :
             d[i] = HopsWithin({<<startNode.row, startNode.col>>}, 0, v[i],
                               Tagged(g, "wall"), NumRows(g), NumCols(g))

\* C36: a step that fires a path event of a playback leaves every cell
\* tagged wall, start or end at that moment with the tag it has, so the wall
\* set and the start and end tags are the same after the playback as before.
C36_PathKeepsRoles ==
  [][(/\ Len(events') > Len(events)
      /\ events'[Len(events')].kind = "path")
     => \A p \in Cells(grid) :
          grid[p[1]][p[2]].type \in Roles
          => grid'[p[1]][p[2]].type = grid[p[1]][p[2]].type]_vars

====
